---- MODULE Spec2Model ----
(***************************************************************************)
(* Model of the DNS performance tester (src/main.go): the worker pool,     *)
(* the work producer, the result aggregator, the pool barrier and the      *)
(* coordinator (func main from line 147 on), with the channels jobs,       *)
(* results, done and sigChan, the context ctx and the WaitGroup wg.        *)
(***************************************************************************)
EXTENDS Integers, Sequences, FiniteSets, TLC

\* ---------------------------------------------------------------- bounds
MaxConcurrency == 2     \* -concurrency is drawn from 0..MaxConcurrency
MaxQueries == 2         \* -queries is drawn from {-1} \cup 0..MaxQueries
MaxTokens == MaxQueries \* an unbounded run hands over at most MaxTokens tokens

Unbounded == 0 - 1      \* the value of -queries that means "continuous"

WorkerIds == 1..MaxConcurrency
Durations == {1}        \* time.Since(start), in time units: time is not modelled
TokenIds == 1..(MaxQueries + MaxTokens + 1)

\* The -domain values, by what dnsmessage does with domain + ".":
\*   "ok"       the name is built and packs,
\*   "badlabel" the name is built (at most 255 bytes) and Pack rejects it
\*              (an empty or over-long label),
\*   "toolong"  domain + "." is longer than 255 bytes: MustNewName panics.
DomainKinds == {"ok", "badlabel", "toolong"}

\* What the network does to one attempt: the step that fails, or "none".
NetFaults == {"dial", "write", "read", "unpack", "none"}

\* Lines 120-129.
recordTypeMap ==
  [A |-> 1, NS |-> 2, CNAME |-> 5, SOA |-> 6, PTR |-> 12, MX |-> 15, TXT |-> 16,
   AAAA |-> 28]

\* The values of -type and of -domain a run is started with: mnemonics of the
\* table and others; the domain kinds and the empty domain.
TypeInputs == {"A", "ZZZ", "a"}
DomainInputs == DomainKinds \cup {"empty"}

\* Where main is before the pool exists (lines 102-146).
StartupPcs == {"checkDomain", "openLog", "checkType", "spawn"}

VARIABLES
  concurrency,        \* *concurrency
  queries,            \* *queries
  domain,             \* the kind of *domain (DomainKinds)
  ctxDone,            \* ctx.Done() is closed (cancel() was called)
  sigChan,            \* number of signals buffered in sigChan (capacity 1)
  jobsClosed,         \* close(jobs) has run
  results,            \* the buffer of the results channel
  resultsClosed,      \* close(results) has run
  done,               \* close(done) has run
  wg,                 \* the WaitGroup counter
  wpc,                \* where each worker goroutine is
  wres,               \* the result a worker holds (local variable result)
  barrierPc,          \* where the goroutine of lines 159-162 is
  prodPc,             \* where the producer goroutine is
  aggPc,              \* where the aggregator goroutine is
  aggRes,             \* the aggregator's loop variable result
  mainPc,             \* where main is
  queryCount,
  successCount,
  totalDuration,
  finalQueryCount,
  finalSuccessCount,
  avgDuration,
  \* history variables (not in the program)
  pushed,             \* tokens handed over on jobs so far
  consumed,           \* consumed[k]: how many times token k was received
  taken,              \* taken[w]: tokens worker w has received
  sent,               \* sent[w]: results worker w has pushed on results
  aggregated,         \* results the aggregator has received
  succeeded,          \* attempts that returned Success = true
  resultsCloses,      \* how many times close(results) has run
  cancelPushed,       \* the value of pushed when cancel() was called
  \* startup and transport
  recordTypeStr,      \* *recordTypeStr
  recordType,         \* recordType (0 before the lookup of line 131)
  conn                \* conn[w]: connections worker w holds open

vars == <<concurrency, queries, domain, ctxDone, sigChan, jobsClosed, results,
          resultsClosed, done, wg, wpc, wres, barrierPc, prodPc, aggPc, aggRes,
          mainPc, queryCount, successCount, totalDuration, finalQueryCount,
          finalSuccessCount, avgDuration, pushed, consumed, taken, sent,
          aggregated, succeeded, resultsCloses, cancelPushed, recordTypeStr,
          recordType, conn>>

config == <<concurrency, queries, domain>>
chans == <<ctxDone, sigChan, jobsClosed, results, resultsClosed, done, wg>>
workerVars == <<wpc, wres>>
prodVars == <<prodPc, queryCount>>
aggVars == <<aggPc, aggRes, successCount, totalDuration>>
mainVars == <<mainPc, finalQueryCount, finalSuccessCount, avgDuration>>
history == <<pushed, consumed, taken, sent, aggregated, succeeded>>
extra == <<resultsCloses, cancelPushed, recordTypeStr, recordType, conn>>

NoResult == [Duration |-> 0, Success |-> FALSE]

\* ------------------------------------------------------ performDNSQuery
\* One attempt: what performDNSQuery does for a domain of kind d when the
\* network fault of the attempt is f and the attempt takes t time units.
\* Returns [panics, Duration, Success].
performDNSQuery(d, f, t) ==
  IF f = "dial" THEN [panics |-> FALSE, Duration |-> t, Success |-> FALSE]
  ELSE IF d = "toolong" THEN [panics |-> TRUE, Duration |-> t, Success |-> FALSE]
  ELSE IF d = "badlabel" THEN [panics |-> FALSE, Duration |-> t, Success |-> FALSE]
  ELSE IF f \in {"write", "read", "unpack"}
       THEN [panics |-> FALSE, Duration |-> t, Success |-> FALSE]
  ELSE [panics |-> FALSE, Duration |-> t, Success |-> TRUE]

\* The process is running: main has not returned or panicked and no
\* goroutine has brought the process down.
Alive ==
  /\ mainPc \notin {"exit", "exit1", "panic"}
  /\ \A w \in WorkerIds : wpc[w] # "panic"

\* A worker goroutine has panicked: it is unwinding or has ended the process.
WorkerPanicked == \E w \in WorkerIds : wpc[w] \in {"panicking", "panic"}

\* ----------------------------------------------------------------- Init
\* The state when main reaches line 170: the pool is spawned (wg.Add(1) per
\* worker), the barrier goroutine waits, nothing has been produced.
Init ==
  /\ concurrency \in 0..MaxConcurrency
  /\ queries \in {Unbounded} \cup (0..MaxQueries)
  /\ domain \in DomainKinds
  /\ ctxDone = FALSE
  /\ sigChan = 0
  /\ jobsClosed = FALSE
  /\ results = <<>>
  /\ resultsClosed = FALSE
  /\ done = FALSE
  /\ wg = concurrency
  /\ wpc = [w \in WorkerIds |-> IF w <= concurrency THEN "select" ELSE "none"]
  /\ wres = [w \in WorkerIds |-> NoResult]
  /\ barrierPc = "wait"
  /\ prodPc = "check"
  /\ aggPc = "range"
  /\ aggRes = NoResult
  /\ mainPc = "select"
  /\ queryCount = 0
  /\ successCount = 0
  /\ totalDuration = 0
  /\ finalQueryCount = 0
  /\ finalSuccessCount = 0
  /\ avgDuration = 0
  /\ pushed = 0
  /\ consumed = [k \in TokenIds |-> 0]
  /\ taken = [w \in WorkerIds |-> 0]
  /\ sent = [w \in WorkerIds |-> 0]
  /\ aggregated = 0
  /\ succeeded = 0
  /\ resultsCloses = 0
  /\ cancelPushed = 0
  /\ recordTypeStr = "A"
  /\ recordType = 1
  /\ conn = [w \in WorkerIds |-> 0]

\* --------------------------------------------------------------- worker
\* Lines 80-82: the select takes <-ctx.Done() and the worker returns; the
\* deferred wg.Done() runs.
WorkerCtxDone(w) ==
  /\ Alive
  /\ wpc[w] = "select"
  /\ ctxDone
  /\ wpc' = [wpc EXCEPT ![w] = "exit"]
  /\ wg' = wg - 1
  /\ UNCHANGED <<extra, config, ctxDone, sigChan, jobsClosed, results, resultsClosed,
                 done, wres, barrierPc, prodVars, aggVars, mainVars, history>>

\* WorkerJobsClosed without the test of ok (line 84): the zero value received
\* from the closed channel is treated as a token.
WorkerJobsClosed_IgnoresOk(w) ==
  /\ Alive
  /\ wpc[w] = "select"
  /\ jobsClosed
  /\ wpc' = [wpc EXCEPT ![w] = "query"]
  /\ taken' = [taken EXCEPT ![w] = @ + 1]
  /\ UNCHANGED <<extra, config, chans, wres, barrierPc, prodVars, aggVars, mainVars,
                 pushed, consumed, sent, aggregated, succeeded>>

\* Lines 83-86: the receive on the closed jobs channel yields ok = false and
\* the worker returns; the deferred wg.Done() runs.
WorkerJobsClosed(w) ==
  /\ Alive
  /\ wpc[w] = "select"
  /\ jobsClosed
  /\ wpc' = [wpc EXCEPT ![w] = "exit"]
  /\ wg' = wg - 1
  /\ UNCHANGED <<extra, config, ctxDone, sigChan, jobsClosed, results, resultsClosed,
                 done, wres, barrierPc, prodVars, aggVars, mainVars, history>>

\* Line 83 with line 176: jobs is unbuffered, so the worker's receive and the
\* producer's send `jobs <- 1` happen together. The producer goes on to line
\* 177, the worker to line 87.
WorkerRecvJob(w) ==
  /\ Alive
  /\ wpc[w] = "select"
  /\ prodPc = "send"
  /\ ~jobsClosed
  /\ wpc' = [wpc EXCEPT ![w] = "query"]
  /\ prodPc' = "inc"
  /\ pushed' = pushed + 1
  /\ consumed' = [consumed EXCEPT ![pushed + 1] = @ + 1]
  /\ taken' = [taken EXCEPT ![w] = @ + 1]
  /\ UNCHANGED <<extra, config, chans, wres, barrierPc, queryCount, aggVars, mainVars,
                 sent, aggregated, succeeded>>

\* Line 87 and lines 26-33: the attempt starts with net.Dial. When the dial
\* fails the attempt returns a failed QueryResult; otherwise the connection
\* is open and its Close is deferred (line 33).
WorkerQuery(w) ==
  /\ Alive
  /\ wpc[w] = "query"
  /\ \/ \E t \in Durations :
          LET r == performDNSQuery(domain, "dial", t) IN
          /\ wpc' = [wpc EXCEPT ![w] = "send"]
          /\ wres' = [wres EXCEPT ![w] = [Duration |-> r.Duration,
                                          Success |-> r.Success]]
          /\ conn' = conn
     \/ /\ wpc' = [wpc EXCEPT ![w] = "attempt"]
        /\ conn' = [conn EXCEPT ![w] = @ + 1]
        /\ wres' = wres
  /\ UNCHANGED <<resultsCloses, cancelPushed, recordTypeStr, recordType, config,
                 chans, barrierPc, prodVars, aggVars, mainVars, history>>

\* WorkerAttempt with conn.Close() called only at the end of the success path
\* instead of deferred: the error returns leave the connection open.
WorkerAttempt_CloseOnSuccessOnly(w) ==
  /\ Alive
  /\ wpc[w] = "attempt"
  /\ \E f \in NetFaults \ {"dial"}, t \in Durations :
       LET r == performDNSQuery(domain, f, t) IN
       IF r.panics
       THEN /\ wpc' = [wpc EXCEPT ![w] = "panicking"]
            /\ wg' = wg - 1
            /\ conn' = conn
            /\ UNCHANGED <<wres, succeeded>>
       ELSE /\ wpc' = [wpc EXCEPT ![w] = "send"]
            /\ wres' = [wres EXCEPT ![w] = [Duration |-> r.Duration,
                                            Success |-> r.Success]]
            /\ succeeded' = IF r.Success THEN succeeded + 1 ELSE succeeded
            /\ conn' = IF r.Success THEN [conn EXCEPT ![w] = @ - 1] ELSE conn
            /\ wg' = wg
  /\ UNCHANGED <<resultsCloses, cancelPushed, recordTypeStr, recordType, config,
                 ctxDone, sigChan, jobsClosed, results, resultsClosed, done,
                 barrierPc, prodVars, aggVars, mainVars, pushed, consumed, taken,
                 sent, aggregated>>

\* Lines 35-74: the rest of the attempt on the open connection. It returns a
\* QueryResult, or MustNewName (line 40) panics and the worker unwinds,
\* running the deferred wg.Done() (line 78). Either way the deferred
\* conn.Close() (line 33) runs.
WorkerAttempt(w) ==
  /\ Alive
  /\ wpc[w] = "attempt"
  /\ \E f \in NetFaults \ {"dial"}, t \in Durations :
       LET r == performDNSQuery(domain, f, t) IN
       IF r.panics
       THEN /\ wpc' = [wpc EXCEPT ![w] = "panicking"]
            /\ wg' = wg - 1
            /\ UNCHANGED <<wres, succeeded>>
       ELSE /\ wpc' = [wpc EXCEPT ![w] = "send"]
            /\ wres' = [wres EXCEPT ![w] = [Duration |-> r.Duration,
                                            Success |-> r.Success]]
            /\ succeeded' = IF r.Success THEN succeeded + 1 ELSE succeeded
            /\ wg' = wg
  /\ conn' = [conn EXCEPT ![w] = @ - 1]
  /\ UNCHANGED <<resultsCloses, cancelPushed, recordTypeStr, recordType, config,
                 ctxDone, sigChan, jobsClosed, results, resultsClosed, done,
                 barrierPc, prodVars, aggVars, mainVars, pushed, consumed, taken,
                 sent, aggregated>>

\* Line 88: results <- result. The send blocks while the buffer (capacity
\* *concurrency, line 151) is full; a send on the closed channel panics.
WorkerSend(w) ==
  /\ Alive
  /\ wpc[w] = "send"
  /\ IF resultsClosed
     THEN /\ wpc' = [wpc EXCEPT ![w] = "panicking"]
          /\ wg' = wg - 1
          /\ UNCHANGED <<results, sent>>
     ELSE /\ Len(results) < concurrency
          /\ results' = Append(results, wres[w])
          /\ sent' = [sent EXCEPT ![w] = @ + 1]
          /\ wpc' = [wpc EXCEPT ![w] = "select"]
          /\ wg' = wg
  /\ UNCHANGED <<extra, config, ctxDone, sigChan, jobsClosed, resultsClosed, done, wres,
                 barrierPc, prodVars, aggVars, mainVars, pushed, consumed, taken,
                 aggregated, succeeded>>

\* The Go runtime ends the process after an unrecovered panic of a worker
\* goroutine, once its deferred calls have run.
WorkerCrash(w) ==
  /\ Alive
  /\ wpc[w] = "panicking"
  /\ wpc' = [wpc EXCEPT ![w] = "panic"]
  /\ UNCHANGED <<extra, config, chans, wres, barrierPc, prodVars, aggVars, mainVars,
                 history>>

worker(w) ==
  \/ WorkerCtxDone(w)
  \/ WorkerJobsClosed(w)
  \/ WorkerRecvJob(w)
  \/ WorkerQuery(w)
  \/ WorkerAttempt(w)
  \/ WorkerSend(w)
  \/ WorkerCrash(w)

\* ---------------------------------------------------------- pool barrier
\* BarrierClose without wg.Wait(): results is closed while workers run.
BarrierClose_NoWait ==
  /\ Alive
  /\ barrierPc = "wait"
  /\ resultsClosed' = TRUE
  /\ resultsCloses' = resultsCloses + 1
  /\ barrierPc' = "done"
  /\ UNCHANGED <<cancelPushed, recordTypeStr, recordType, conn, config, ctxDone,
                 sigChan, jobsClosed, results, done, wg, workerVars, prodVars,
                 aggVars, mainVars, history>>

\* Lines 159-162: wg.Wait() returns when the counter is zero, then
\* close(results).
BarrierClose ==
  /\ Alive
  /\ barrierPc = "wait"
  /\ wg = 0
  /\ resultsClosed' = TRUE
  /\ resultsCloses' = resultsCloses + 1
  /\ barrierPc' = "done"
  /\ UNCHANGED <<cancelPushed, recordTypeStr, recordType, conn, config, ctxDone, sigChan, jobsClosed, results, done, wg,
                 workerVars, prodVars, aggVars, mainVars, history>>

\* ------------------------------------------------------------- producer
\* ProdCheck with <= for < in the loop condition: one token too many.
ProdCheck_OffByOne ==
  /\ Alive
  /\ prodPc = "check"
  /\ prodPc' = IF queries = Unbounded \/ queryCount <= queries
               THEN "select" ELSE "close"
  /\ UNCHANGED <<extra, config, chans, workerVars, barrierPc, queryCount, aggVars,
                 mainVars, history>>

\* Line 171: the loop condition.
ProdCheck ==
  /\ Alive
  /\ prodPc = "check"
  /\ prodPc' = IF queries = Unbounded \/ queryCount < queries
               THEN "select" ELSE "close"
  /\ UNCHANGED <<extra, config, chans, workerVars, barrierPc, queryCount, aggVars,
                 mainVars, history>>

\* ProdSelect without the case <-ctx.Done(): the producer always goes on to
\* the send.
ProdSelect_IgnoresCancel ==
  /\ Alive
  /\ prodPc = "select"
  /\ pushed < MaxTokens \/ queries # Unbounded
  /\ prodPc' = "send"
  /\ UNCHANGED <<extra, config, chans, workerVars, barrierPc, queryCount, aggVars,
                 mainVars, history>>

\* Lines 172-176: the select with a default case. With ctx cancelled the
\* goroutine returns (line 174, jobs is left open); otherwise it goes to the
\* send of line 176, which is a plain blocking send.
ProdSelect ==
  /\ Alive
  /\ prodPc = "select"
  /\ IF ctxDone
     THEN prodPc' = "done"
     ELSE /\ pushed < MaxTokens \/ queries # Unbounded
          /\ prodPc' = "send"
  /\ UNCHANGED <<extra, config, chans, workerVars, barrierPc, queryCount, aggVars,
                 mainVars, history>>

\* Line 177: atomic.AddInt64(&queryCount, 1), after the send has completed.
ProdInc ==
  /\ Alive
  /\ prodPc = "inc"
  /\ queryCount' = queryCount + 1
  /\ prodPc' = "check"
  /\ UNCHANGED <<extra, config, chans, workerVars, barrierPc, aggVars, mainVars,
                 history>>

\* Line 187: close(jobs), reached only when the loop condition fails.
ProdClose ==
  /\ Alive
  /\ prodPc = "close"
  /\ jobsClosed' = TRUE
  /\ prodPc' = "done"
  /\ UNCHANGED <<extra, config, ctxDone, sigChan, results, resultsClosed, done, wg,
                 workerVars, barrierPc, queryCount, aggVars, mainVars, history>>

producer == ProdCheck \/ ProdSelect \/ ProdInc \/ ProdClose

\* ------------------------------------------------------------ aggregator
\* Line 194: range results receives the next result.
AggRecv ==
  /\ Alive
  /\ aggPc = "range"
  /\ Len(results) > 0
  /\ aggRes' = Head(results)
  /\ results' = Tail(results)
  /\ aggregated' = aggregated + 1
  /\ aggPc' = "add"
  /\ UNCHANGED <<extra, config, ctxDone, sigChan, jobsClosed, resultsClosed, done, wg,
                 workerVars, barrierPc, prodVars, successCount, totalDuration,
                 mainVars, pushed, consumed, taken, sent, succeeded>>

\* Lines 195-198: the loop body.
AggAdd ==
  /\ Alive
  /\ aggPc = "add"
  /\ totalDuration' = totalDuration + aggRes.Duration
  /\ successCount' = IF aggRes.Success THEN successCount + 1 ELSE successCount
  /\ aggPc' = "range"
  /\ UNCHANGED <<extra, config, chans, workerVars, barrierPc, prodVars, aggRes,
                 mainVars, history>>

\* Lines 194 and 200: the range ends when results is closed and drained, then
\* close(done).
AggClose ==
  /\ Alive
  /\ aggPc = "range"
  /\ Len(results) = 0
  /\ resultsClosed
  /\ done' = TRUE
  /\ aggPc' = "done"
  /\ UNCHANGED <<extra, config, ctxDone, sigChan, jobsClosed, results, resultsClosed,
                 wg, workerVars, barrierPc, prodVars, aggRes, successCount,
                 totalDuration, mainVars, history>>

aggregator == AggRecv \/ AggAdd \/ AggClose

\* ------------------------------------------------------------ coordinator
\* Line 168: the operating system delivers an interrupt; signal.Notify
\* buffers it in sigChan (capacity 1) and drops it when the buffer is full.
Interrupt ==
  /\ Alive
  /\ mainPc \notin StartupPcs
  /\ sigChan = 0
  /\ sigChan' = 1
  /\ UNCHANGED <<extra, config, ctxDone, jobsClosed, results, resultsClosed, done, wg,
                 workerVars, barrierPc, prodVars, aggVars, mainVars, history>>

\* Lines 203-206: the select takes <-sigChan and calls cancel().
MainSelectSig ==
  /\ Alive
  /\ mainPc = "select"
  /\ sigChan > 0
  /\ sigChan' = sigChan - 1
  /\ ctxDone' = TRUE
  /\ cancelPushed' = pushed
  /\ mainPc' = "drain"
  /\ UNCHANGED <<resultsCloses, recordTypeStr, recordType, conn, config, jobsClosed, results, resultsClosed, done, wg,
                 workerVars, barrierPc, prodVars, aggVars, finalQueryCount,
                 finalSuccessCount, avgDuration, history>>

\* Lines 207-208: the select takes <-done.
MainSelectDone ==
  /\ Alive
  /\ mainPc = "select"
  /\ done
  /\ mainPc' = "drain"
  /\ UNCHANGED <<extra, config, chans, workerVars, barrierPc, prodVars, aggVars,
                 finalQueryCount, finalSuccessCount, avgDuration, history>>

\* MainDrain without the receive of line 211.
MainDrain_NoWait ==
  /\ Alive
  /\ mainPc = "drain"
  /\ mainPc' = "loadQuery"
  /\ UNCHANGED <<extra, config, chans, workerVars, barrierPc, prodVars, aggVars,
                 finalQueryCount, finalSuccessCount, avgDuration, history>>

\* Line 211: <-done.
MainDrain ==
  /\ Alive
  /\ mainPc = "drain"
  /\ done
  /\ mainPc' = "loadQuery"
  /\ UNCHANGED <<extra, config, chans, workerVars, barrierPc, prodVars, aggVars,
                 finalQueryCount, finalSuccessCount, avgDuration, history>>

\* Line 213: finalQueryCount := atomic.LoadInt64(&queryCount).
MainLoadQueryCount ==
  /\ Alive
  /\ mainPc = "loadQuery"
  /\ finalQueryCount' = queryCount
  /\ mainPc' = "loadSuccess"
  /\ UNCHANGED <<extra, config, chans, workerVars, barrierPc, prodVars, aggVars,
                 finalSuccessCount, avgDuration, history>>

\* Line 214: finalSuccessCount := atomic.LoadInt64(&successCount).
MainLoadSuccessCount ==
  /\ Alive
  /\ mainPc = "loadSuccess"
  /\ finalSuccessCount' = successCount
  /\ mainPc' = "stats"
  /\ UNCHANGED <<extra, config, chans, workerVars, barrierPc, prodVars, aggVars,
                 finalQueryCount, avgDuration, history>>

\* Line 216: avgDuration := totalDuration / time.Duration(finalQueryCount),
\* an integer division: Go panics when the divisor is zero. Lines 217-218
\* are floating-point divisions and do not fault.
MainStats ==
  /\ Alive
  /\ mainPc = "stats"
  /\ IF finalQueryCount = 0
     THEN /\ mainPc' = "panic"
          /\ UNCHANGED avgDuration
     ELSE /\ avgDuration' = totalDuration \div finalQueryCount
          /\ mainPc' = "report"
  /\ UNCHANGED <<extra, config, chans, workerVars, barrierPc, prodVars, aggVars,
                 finalQueryCount, finalSuccessCount, history>>

\* Lines 220-227: the report is printed and main returns: the process exits.
\* When a goroutine is panicking, the Go runtime does not let the return of
\* main end the process: the panic ends it (WorkerCrash).
MainReport ==
  /\ Alive
  /\ mainPc = "report"
  /\ \A w \in WorkerIds : wpc[w] # "panicking"
  /\ mainPc' = "exit"
  /\ UNCHANGED <<extra, config, chans, workerVars, barrierPc, prodVars, aggVars,
                 finalQueryCount, finalSuccessCount, avgDuration, history>>

\* Line 223: the number printed as "Failed queries".
FailedQueries == finalQueryCount - finalSuccessCount

main ==
  \/ MainSelectSig
  \/ MainSelectDone
  \/ MainDrain
  \/ MainLoadQueryCount
  \/ MainLoadSuccessCount
  \/ MainStats
  \/ MainReport

\* ---------------------------------------------------------------- startup
\* The state after flag.Parse() (line 100): no goroutine exists yet.
InitConfig ==
  /\ concurrency \in 0..MaxConcurrency
  /\ queries \in {Unbounded} \cup (0..MaxQueries)
  /\ domain \in DomainInputs
  /\ recordTypeStr \in TypeInputs
  /\ recordType = 0
  /\ ctxDone = FALSE
  /\ sigChan = 0
  /\ jobsClosed = FALSE
  /\ results = <<>>
  /\ resultsClosed = FALSE
  /\ done = FALSE
  /\ wg = 0
  /\ wpc = [w \in WorkerIds |-> "none"]
  /\ wres = [w \in WorkerIds |-> NoResult]
  /\ barrierPc = "none"
  /\ prodPc = "none"
  /\ aggPc = "none"
  /\ aggRes = NoResult
  /\ mainPc = "checkDomain"
  /\ queryCount = 0
  /\ successCount = 0
  /\ totalDuration = 0
  /\ finalQueryCount = 0
  /\ finalSuccessCount = 0
  /\ avgDuration = 0
  /\ pushed = 0
  /\ consumed = [k \in TokenIds |-> 0]
  /\ taken = [w \in WorkerIds |-> 0]
  /\ sent = [w \in WorkerIds |-> 0]
  /\ aggregated = 0
  /\ succeeded = 0
  /\ resultsCloses = 0
  /\ cancelPushed = 0
  /\ conn = [w \in WorkerIds |-> 0]

\* Lines 102-105: an empty -domain ends the process with os.Exit(1).
MainCheckDomain ==
  /\ mainPc = "checkDomain"
  /\ mainPc' = IF domain = "empty" THEN "exit1" ELSE "openLog"
  /\ UNCHANGED <<extra, config, chans, workerVars, barrierPc, prodVars, aggVars,
                 finalQueryCount, finalSuccessCount, avgDuration, history>>

\* Lines 107-118: the log file, when one is named, is opened; log.Fatalf ends
\* the process with exit status 1 when it cannot be opened.
MainOpenLog ==
  /\ mainPc = "openLog"
  /\ \E opened \in BOOLEAN : mainPc' = IF opened THEN "checkType" ELSE "exit1"
  /\ UNCHANGED <<extra, config, chans, workerVars, barrierPc, prodVars, aggVars,
                 finalQueryCount, finalSuccessCount, avgDuration, history>>

\* MainCheckType without the test of ok (lines 132-135): an unknown mnemonic
\* goes on with the zero value of the lookup.
MainCheckType_NoReject ==
  /\ mainPc = "checkType"
  /\ recordType' = IF recordTypeStr \in DOMAIN recordTypeMap
                   THEN recordTypeMap[recordTypeStr] ELSE 0
  /\ mainPc' = "spawn"
  /\ UNCHANGED <<resultsCloses, cancelPushed, recordTypeStr, conn, config, chans,
                 workerVars, barrierPc, prodVars, aggVars, finalQueryCount,
                 finalSuccessCount, avgDuration, history>>

\* Lines 131-135: the lookup in recordTypeMap; an unknown mnemonic ends the
\* process with os.Exit(1).
MainCheckType ==
  /\ mainPc = "checkType"
  /\ IF recordTypeStr \in DOMAIN recordTypeMap
     THEN /\ recordType' = recordTypeMap[recordTypeStr]
          /\ mainPc' = "spawn"
     ELSE /\ recordType' = 0
          /\ mainPc' = "exit1"
  /\ UNCHANGED <<resultsCloses, cancelPushed, recordTypeStr, conn, config, chans,
                 workerVars, barrierPc, prodVars, aggVars, finalQueryCount,
                 finalSuccessCount, avgDuration, history>>

\* Lines 147-201: the context and the channels are made, the N workers, the
\* barrier, the producer and the aggregator are started (wg.Add(1) per
\* worker); main goes to the select of line 203.
MainSpawn ==
  /\ mainPc = "spawn"
  /\ wg' = concurrency
  /\ wpc' = [w \in WorkerIds |-> IF w <= concurrency THEN "select" ELSE "none"]
  /\ barrierPc' = "wait"
  /\ prodPc' = "check"
  /\ aggPc' = "range"
  /\ mainPc' = "select"
  /\ UNCHANGED <<extra, config, ctxDone, sigChan, jobsClosed, results,
                 resultsClosed, done, wres, queryCount, aggRes, successCount,
                 totalDuration, finalQueryCount, finalSuccessCount, avgDuration,
                 history>>

startup == MainCheckDomain \/ MainOpenLog \/ MainCheckType \/ MainSpawn

\* ------------------------------------------------------------------ Next
Next ==
  \/ \E w \in WorkerIds : worker(w)
  \/ BarrierClose
  \/ producer
  \/ aggregator
  \/ main
  \/ Interrupt

Spec == Init /\ [][Next]_vars

\* The Go scheduler runs every goroutine that can run; the interrupt comes
\* from outside and need not come.
Fairness ==
  /\ \A w \in WorkerIds : WF_vars(worker(w))
  /\ WF_vars(BarrierClose)
  /\ WF_vars(producer)
  /\ WF_vars(aggregator)
  /\ WF_vars(main)

FairSpec == Init /\ [][Next]_vars /\ Fairness

\* The whole program, from the end of flag.Parse().
NextConfig == startup \/ Next

ConfigSpec == InitConfig /\ [][NextConfig]_vars

\* ================================================================ claims
\* main has observed aggregation-done and left the wait of line 211: the
\* coordinator is in Reporting or beyond.
Reporting == mainPc \in {"loadQuery", "loadSuccess", "stats", "report", "exit", "panic"}

\* main has read both final counters (lines 213-214).
CountersRead == mainPc \in {"stats", "report", "exit", "panic"}

\* C1: once the coordinator has read the final counters, finalSuccessCount
\* is at most finalQueryCount, in every run.
C1_SuccessAtMostTotal ==
  CountersRead => finalSuccessCount <= finalQueryCount

\* C2: computing the statistics never faults when finalQueryCount is 0: the
\* coordinator does not panic in the statistics.
C2_StatsNeverFault ==
  ~(mainPc = "panic" /\ finalQueryCount = 0)

\* C3: with N >= 1 workers and a limit L >= 0, when the coordinator reaches
\* Reporting in a run that was not cancelled and in which no goroutine
\* panicked, exactly L results have been aggregated, and the finalQueryCount
\* it reads is L.
C3_CompletedRunYieldsLimit ==
  (concurrency >= 1 /\ queries # Unbounded /\ ~ctxDone /\ ~WorkerPanicked
     /\ Reporting)
    => /\ aggregated = queries
       /\ CountersRead => finalQueryCount = queries

C3_Witness ==
  /\ concurrency = 2 /\ queries = 2 /\ ~ctxDone
  /\ mainPc = "report" /\ aggregated = 2 /\ finalQueryCount = 2

\* C4: once cancellation has fired, the coordinator eventually observes
\* aggregation-done and reaches Reporting.
C4_InterruptDrains == ctxDone ~> Reporting

\* C4, what the code does: after cancellation the coordinator reaches
\* Reporting unless a worker's attempt panics first (see C9).
C4_DrainsUnlessPanic == ctxDone ~> (Reporting \/ WorkerPanicked)

\* C5: after cancellation the producer is never blocked for good: in a run
\* with N >= 1 workers it is never at its push on jobs (line 176) with every
\* worker gone.
C5_ProducerNeverStuck ==
  ~(/\ ctxDone
    /\ concurrency >= 1
    /\ prodPc = "send"
    /\ \A w \in WorkerIds : wpc[w] \in {"none", "exit"})

\* C6: in a run with 1 <= N <= L that is not cancelled, no token is consumed
\* twice and eventually each of the L tokens has been consumed once.
AllConsumedOnce == \A k \in TokenIds : consumed[k] = (IF k <= queries THEN 1 ELSE 0)

C6_TokensConsumedOnce ==
  /\ [](\A k \in TokenIds : consumed[k] <= 1)
  /\ <>(ctxDone \/ ~(1 <= concurrency /\ concurrency <= queries) \/ AllConsumedOnce)

\* C6, what the code does: the same, unless a worker's attempt panics (C9).
C6_ConsumedOnceUnlessPanic ==
  /\ [](\A k \in TokenIds : consumed[k] <= 1)
  /\ <>(\/ ctxDone \/ ~(1 <= concurrency /\ concurrency <= queries)
        \/ AllConsumedOnce \/ WorkerPanicked)

\* C7: every token a worker has taken has led to exactly one result pushed by
\* that worker once the worker is back at its select or has ended; at most
\* one token per worker is in flight.
C7_OneResultPerToken ==
  \A w \in WorkerIds :
    /\ sent[w] <= taken[w]
    /\ taken[w] <= sent[w] + 1
    /\ wpc[w] \in {"select", "exit", "panicking", "panic"} => sent[w] = taken[w]

\* C7, what the code does: the same for a worker that is at its select or
\* has returned; a worker whose attempt panicked (C9) has dropped its token.
C7_OneResultUnlessPanic ==
  \A w \in WorkerIds :
    /\ sent[w] <= taken[w]
    /\ taken[w] <= sent[w] + 1
    /\ wpc[w] \in {"select", "exit"} => sent[w] = taken[w]

\* C8: the number of results the aggregator has consumed never exceeds the
\* number of tokens the producer has pushed.
C8_AggregatedAtMostPushed == aggregated <= pushed

C8_Witness == aggregated = 2 /\ pushed = 2 /\ ~ctxDone

\* C9: the Query Executor never raises to its caller: no worker's attempt
\* ends in a panic.
C9_ExecutorNeverRaises == ~WorkerPanicked

\* C10: in an uninterrupted run with a limit L >= 1 and N >= 1, failed
\* attempts do not end the run: when the process has ended, main has returned
\* after the report, all L results were aggregated, the final success count
\* is the number of attempts that succeeded and the failed count is the rest.
C10_FailuresOnlyCounted ==
  (~ctxDone /\ queries >= 1 /\ concurrency >= 1 /\ ~Alive)
    => /\ mainPc = "exit"
       /\ aggregated = queries
       /\ finalSuccessCount = succeeded
       /\ FailedQueries = queries - succeeded

\* C10, what the code does: the same whenever the report is printed.
C10_ReportCountsFailures ==
  (~ctxDone /\ queries >= 1 /\ concurrency >= 1 /\ ~WorkerPanicked
     /\ mainPc \in {"report", "exit"})
    => /\ aggregated = queries
       /\ finalSuccessCount = succeeded
       /\ FailedQueries = queries - succeeded

\* C11: with a configuration error (empty domain, or a mnemonic outside the
\* table) main is still validating or has left with exit status 1, and no
\* worker was spawned, no token produced, no query attempted; a main that has
\* not left yet can take its next validation step.
ConfigError == domain = "empty" \/ recordTypeStr \notin DOMAIN recordTypeMap

NothingStarted ==
  /\ wg = 0
  /\ \A w \in WorkerIds : wpc[w] = "none" /\ taken[w] = 0 /\ conn[w] = 0
  /\ prodPc = "none" /\ barrierPc = "none" /\ aggPc = "none"
  /\ pushed = 0 /\ queryCount = 0

C11_ConfigErrorExitsBeforeWork ==
  ConfigError =>
    /\ NothingStarted
    /\ mainPc \in {"checkDomain", "openLog", "checkType", "exit1"}
    /\ mainPc # "exit1" => ENABLED startup

C11_Witness ==
  /\ domain = "ok" /\ recordTypeStr = "ZZZ" /\ mainPc = "exit1" /\ NothingStarted

\* The sum of f over the workers.
RECURSIVE SumUpTo(_, _)
SumUpTo(f, n) == IF n = 0 THEN 0 ELSE f[n] + SumUpTo(f, n - 1)
SumWorkers(f) == SumUpTo(f, MaxConcurrency)

LoopRunning(w) == wpc[w] \in {"select", "query", "attempt", "send"}

\* C12: close(results) runs at most once, and once results is closed no
\* worker is in its loop any more, so none can send on the closed channel.
C12_ResultsClosedAfterWorkers ==
  /\ resultsCloses <= 1
  /\ resultsClosed => resultsCloses = 1 /\ \A w \in WorkerIds : ~LoopRunning(w)

C12_Witness ==
  /\ resultsClosed /\ ctxDone /\ concurrency = 2
  /\ \A w \in WorkerIds : wpc[w] = "exit" /\ sent[w] >= 1

\* C13: when done is closed every result pushed on results has been counted;
\* and when the coordinator is in Reporting after an interrupt, every token a
\* worker has taken has its result aggregated.
C13_NoResultLost ==
  /\ done => /\ Len(results) = 0
             /\ aggPc = "done"
             /\ aggregated = SumWorkers(sent)
  /\ (Reporting /\ ctxDone) => aggregated = SumWorkers(taken)

\* C13, what the code does: done is closed only after every pushed result was
\* counted; a token whose attempt panicked (C9) has no result.
C13_DoneAfterAllCounted ==
  /\ done => /\ Len(results) = 0
             /\ aggPc = "done"
             /\ aggregated = SumWorkers(sent)
  /\ (Reporting /\ ctxDone /\ ~WorkerPanicked) => aggregated = SumWorkers(taken)

\* C14: a producer that has exited has closed jobs.
C14_ProducerClosesOnExit == prodPc = "done" => jobsClosed

\* C15: once cancellation has fired, every worker loop eventually exits.
C15_WorkersExitAfterCancel ==
  ctxDone ~> (\A w \in WorkerIds : wpc[w] \in {"none", "exit"})

\* C15, what the code does: after cancellation every worker returns unless
\* an attempt panics (C9) and ends the process.
C15_ExitUnlessPanic ==
  ctxDone ~> (WorkerPanicked \/ \A w \in WorkerIds : wpc[w] \in {"none", "exit"})

\* C16: a worker holds at most one connection, and only while its attempt is
\* running: it is released when the attempt has returned or panicked; at most
\* N connections are open.
C16_ConnectionsReleased ==
  /\ \A w \in WorkerIds :
       /\ conn[w] \in {0, 1}
       /\ wpc[w] # "attempt" => conn[w] = 0
  /\ SumWorkers(conn) <= concurrency

C16_Witness ==
  /\ concurrency = 2
  /\ wpc[1] = "attempt" /\ conn[1] = 1
  /\ wpc[2] = "panicking" /\ conn[2] = 0

\* C17: once the final counters are read and no goroutine panicked, the
\* reported total finalQueryCount is the number of results aggregated.
C17_TotalEqualsAggregated ==
  (CountersRead /\ ~WorkerPanicked) => finalQueryCount = aggregated

\* C17, what the code does: without an interrupt the two are equal.
C17_EqualWithoutInterrupt ==
  (CountersRead /\ ~WorkerPanicked /\ ~ctxDone) => finalQueryCount = aggregated

\* C18: after cancel() at most one more token is handed to a worker.
C18_AtMostOneTokenAfterCancel == ctxDone => pushed <= cancelPushed + 1

C18_Witness == ctxDone /\ pushed = cancelPushed + 1 /\ prodPc = "done"

\* C19: whenever main can read totalDuration (it is past line 211), the
\* aggregator has closed done and writes no more.
C19_ReadAfterLastWrite == Reporting => done /\ aggPc = "done"

C19_Witness == mainPc = "stats" /\ ctxDone /\ totalDuration >= 1 /\ aggPc = "done"

\* C20: with a limit L >= 1, cancellation not fired and no goroutine
\* panicking, done is closed only after the producer has pushed all L tokens
\* and closed jobs.
C20_DoneAfterAllProduced ==
  (queries >= 1 /\ ~ctxDone /\ ~WorkerPanicked /\ done)
    => pushed = queries /\ jobsClosed

\* C20, what the code does: the same for N >= 1.
C20_DoneAfterAllProducedWithWorkers ==
  (concurrency >= 1 /\ queries >= 1 /\ ~ctxDone /\ ~WorkerPanicked /\ done)
    => pushed = queries /\ jobsClosed

====
